---- MODULE Spec2Model ----
(***************************************************************************)
(* Model of imgui-rs-serialize: the texture registry (src/util.rs) and the *)
(* serializable draw data with its capture conversion (src/draw_data.rs).  *)
(***************************************************************************)
EXTENDS Integers, Sequences, FiniteSets, TLC

\* ------------------------------------------------------------------------
\* Bounds of the model
\* ------------------------------------------------------------------------

\* Callers pass TextureIds 0..MaxId to replace / remove / get / get_mut.
MaxId == 3

\* insert is called while the counter is below MaxNext.
MaxNext == 4

\* A toolkit frame holds at most MaxLists draw lists.
MaxLists == 2

\* A toolkit frame of the command family holds at most MaxCmds commands.
MaxCmds == 3

\* A draw list of the buffer family holds at most MaxVtx vertices.
MaxVtx == 2

\* A draw list of the buffer family holds at most MaxIdx indices.
MaxIdx == 2

\* ------------------------------------------------------------------------
\* Values
\* ------------------------------------------------------------------------

\* Option::None
None == "None"

\* The texture values T a backend stores.
Values == {"a", "b"}

Ids == 0..MaxId

\* ------------------------------------------------------------------------
\* State
\* ------------------------------------------------------------------------

VARIABLES textures,   \* Textures::textures, a HashMap<usize, T>: function on its keys
    next,       \* Textures::next
    issued,     \* history: the ids returned by insert, in call order
    used,       \* history: the ids that have ever held a value
    removed,    \* history: the ids remove() took a value from
    last,       \* history: the last call, its argument and what it returned
    scen,       \* history: progress through insert,insert,insert,remove(1),insert
    frame,      \* the toolkit's draw output for the frame (&imgui::DrawData)
    pc,         \* "idle" | "frame" | "captured" | "panicked"
    snap,       \* the DrawData the capture returned, NoSnap before and on panic
    wire,       \* the serialized DrawData, <<>> before serialization
    decoded,    \* the deserialized DrawData, NoSnap before deserialization
    it,         \* the iterator returned by draw_lists() / commands()
    out,        \* the items the iterator has yielded so far
    prev        \* history: what the previous, exhausted iterator was and yielded

texVars == <<textures, next, issued, used, removed, last, scen>>

drawVars == <<frame, pc, snap, wire, decoded, it, out, prev>>

vars == <<textures, next, issued, used, removed, last, scen,
          frame, pc, snap, wire, decoded, it, out, prev>>

\* ------------------------------------------------------------------------
\* std::collections::HashMap, as Textures uses it
\* ------------------------------------------------------------------------

\* HashMap::get: Some(value) or None
HashMapGet(m, k) == IF k \in DOMAIN m THEN m[k] ELSE None

\* HashMap::insert: the map afterwards (the old value is HashMapGet(m, k))
HashMapInsert(m, k, v) == [x \in DOMAIN m \cup {k} |-> IF x = k THEN v ELSE m[x]]

\* HashMap::remove: the map afterwards (the removed value is HashMapGet(m, k))
HashMapRemove(m, k) == [x \in DOMAIN m \ {k} |-> m[x]]

\* HashMap::new
HashMapNew == [x \in {} |-> None]

Call(op, id, arg, ret, dropped) ==
    [op |-> op, id |-> id, arg |-> arg, ret |-> ret, dropped |-> dropped]

\* Progress through the scenario insert x3, remove(1), insert; -1 once left.
ScenStep(s, op, id) ==
    CASE op = "insert"  -> IF s \in {0, 1, 2} THEN s + 1 ELSE IF s = 4 THEN 5 ELSE -1
      [] op = "remove"  -> IF s = 3 /\ id = 1 THEN 4 ELSE -1
      [] op = "replace" -> -1
      [] OTHER          -> s

\* No snapshot: nothing captured or decoded yet, or the capture panicked.
NoSnap == [tag |-> "none"]

\* No iterator has been created.
NoIter == [kind |-> "none", list |-> 0, src |-> <<>>, pos |-> 0, ended |-> FALSE]

\* No iterator has been exhausted.
NoRun == [kind |-> "none", list |-> 0, out |-> <<>>]

\* The draw data side before any frame is handed over.
DrawIdle ==
    /\ frame = NoSnap
    /\ pc = "idle"
    /\ snap = NoSnap
    /\ wire = <<>>
    /\ decoded = NoSnap
    /\ it = NoIter
    /\ out = <<>>
    /\ prev = NoRun

\* ------------------------------------------------------------------------
\* Textures<T>
\* ------------------------------------------------------------------------

\* Textures::new
Init ==
    /\ textures = HashMapNew
    /\ next = 0
    /\ issued = <<>>
    /\ used = {}
    /\ removed = {}
    /\ last = Call("new", 0, None, None, None)
    /\ scen = 0
    /\ DrawIdle

\* insert that takes the smallest key holding no value (reuses freed ids)
InsertReuse(texture) ==
    /\ next < MaxNext
    /\ LET id == CHOOSE k \in 0..MaxNext :
                    /\ k \notin DOMAIN textures
                    /\ \A j \in 0..(k - 1) : j \in DOMAIN textures
       IN  /\ textures' = HashMapInsert(textures, id, texture)
           /\ next' = next + 1
           /\ issued' = Append(issued, id)
           /\ used' = used \cup {id}
           /\ last' = Call("insert", id, texture, None, HashMapGet(textures, id))
           /\ scen' = ScenStep(scen, "insert", id)
    /\ UNCHANGED removed

\* insert that takes the number of stored entries as the id
InsertLen(texture) ==
    /\ next < MaxNext
    /\ LET id == Cardinality(DOMAIN textures)
       IN  /\ textures' = HashMapInsert(textures, id, texture)
           /\ next' = next + 1
           /\ issued' = Append(issued, id)
           /\ used' = used \cup {id}
           /\ last' = Call("insert", id, texture, None, HashMapGet(textures, id))
           /\ scen' = ScenStep(scen, "insert", id)
    /\ UNCHANGED removed

\* Textures::insert
Insert(texture) ==
    /\ next < MaxNext
    /\ LET id == next
       IN  /\ textures' = HashMapInsert(textures, id, texture)
           /\ next' = next + 1
           /\ issued' = Append(issued, id)
           /\ used' = used \cup {id}
           /\ last' = Call("insert", id, texture, None, HashMapGet(textures, id))
           /\ scen' = ScenStep(scen, "insert", id)
    /\ UNCHANGED removed

\* replace that stores only under an id that already holds a value
ReplaceIfPresent(id, texture) ==
    /\ textures' = IF id \in DOMAIN textures
                   THEN HashMapInsert(textures, id, texture)
                   ELSE textures
    /\ used' = used \cup (DOMAIN textures \cap {id})
    /\ last' = Call("replace", id, texture, HashMapGet(textures, id), None)
    /\ scen' = ScenStep(scen, "replace", id)
    /\ UNCHANGED <<next, issued, removed>>

\* Textures::replace
Replace(id, texture) ==
    /\ textures' = HashMapInsert(textures, id, texture)
    /\ used' = used \cup {id}
    /\ last' = Call("replace", id, texture, HashMapGet(textures, id), None)
    /\ scen' = ScenStep(scen, "replace", id)
    /\ UNCHANGED <<next, issued, removed>>

\* remove that deletes the entry and hands nothing back
RemoveDiscard(id) ==
    /\ textures' = HashMapRemove(textures, id)
    /\ removed' = removed \cup (DOMAIN textures \cap {id})
    /\ last' = Call("remove", id, None, None, None)
    /\ scen' = ScenStep(scen, "remove", id)
    /\ UNCHANGED <<next, issued, used>>

\* Textures::remove
Remove(id) ==
    /\ textures' = HashMapRemove(textures, id)
    /\ removed' = removed \cup (DOMAIN textures \cap {id})
    /\ last' = Call("remove", id, None, HashMapGet(textures, id), None)
    /\ scen' = ScenStep(scen, "remove", id)
    /\ UNCHANGED <<next, issued, used>>

\* Textures::get
Get(id) ==
    /\ last' = Call("get", id, None, HashMapGet(textures, id), None)
    /\ scen' = ScenStep(scen, "get", id)
    /\ UNCHANGED <<textures, next, issued, used, removed>>

\* Textures::get_mut
GetMut(id) ==
    /\ last' = Call("get_mut", id, None, HashMapGet(textures, id), None)
    /\ scen' = ScenStep(scen, "get_mut", id)
    /\ UNCHANGED <<textures, next, issued, used, removed>>

Next ==
    \/ \E v \in Values : Insert(v) /\ UNCHANGED drawVars
    \/ \E id \in Ids, v \in Values : Replace(id, v) /\ UNCHANGED drawVars
    \/ \E id \in Ids : Remove(id) /\ UNCHANGED drawVars
    \/ \E id \in Ids : Get(id) /\ UNCHANGED drawVars
    \/ \E id \in Ids : GetMut(id) /\ UNCHANGED drawVars

Spec == Init /\ [][Next]_vars

\* ------------------------------------------------------------------------
\* The toolkit's draw output (imgui::DrawData), the input of the capture
\* ------------------------------------------------------------------------

\* imgui::DrawCmd::Elements, every field with a value of its own
ImElements ==
    [tag |-> "Elements",
     count |-> 6,
     cmd_params |-> [clip_rect |-> <<1, 2, 3, 4>>, texture_id |-> 7,
                     vtx_offset |-> 8, idx_offset |-> 9]]

\* imgui::DrawCmd::ResetRenderState
ImResetRenderState == [tag |-> "ResetRenderState"]

\* imgui::DrawCmd::RawCallback
ImRawCallback == [tag |-> "RawCallback"]

ImCmds == {ImElements, ImResetRenderState, ImRawCallback}

\* The k-th imgui::DrawVert of a buffer, every component with a value of its own
ImVert(k) ==
    [pos |-> <<20 * k + 1, 20 * k + 2>>,
     uv  |-> <<20 * k + 3, 20 * k + 4>>,
     col |-> <<k, k + 10, k + 20, k + 30>>]

RECURSIVE SumLen(_, _)
\* Sum of the lengths of buffer `field` over the draw lists
SumLen(lists, field) ==
    IF lists = <<>> THEN 0
    ELSE Len(Head(lists)[field]) + SumLen(Tail(lists), field)

\* An imgui::DrawData over the given lists; the toolkit keeps the two totals
\* equal to the sums of its lists' buffer sizes.
ImDrawData(lists) ==
    [total_idx_count |-> SumLen(lists, "idx_buffer"),
     total_vtx_count |-> SumLen(lists, "vtx_buffer"),
     cmd_lists |-> lists,
     display_pos |-> <<11, 12>>,
     display_size |-> <<13, 14>>,
     framebuffer_scale |-> <<15, 16>>]

SeqsUpTo(S, n) == UNION {[1..k -> S] : k \in 0..n}

\* Nondecreasing cut points that split a sequence of length len into n pieces
Cuts(n, len) ==
    {c \in [1..(n - 1) -> 0..len] : \A i \in 1..(n - 2) : c[i] <= c[i + 1]}

Piece(flat, c, n, i) ==
    SubSeq(flat,
           (IF i = 1 THEN 0 ELSE c[i - 1]) + 1,
           IF i = n THEN Len(flat) ELSE c[i])

\* Frames that vary in their commands: up to MaxCmds commands of any kind,
\* spread over up to MaxLists lists that each hold one vertex and one index.
CmdFamily ==
    UNION {
        UNION {
            {ImDrawData([i \in 1..n |->
                            [commands |-> Piece(flat, c, n, i),
                             idx_buffer |-> <<0>>,
                             vtx_buffer |-> <<ImVert(i)>>]])
                : c \in Cuts(n, Len(flat))}
            : flat \in SeqsUpTo(ImCmds, IF n = 0 THEN 0 ELSE MaxCmds)}
        : n \in 0..MaxLists}

\* Buffer sizes of one list: indices only where there are vertices
BufShapes ==
    {s \in (0..MaxVtx) \X (0..MaxIdx) : s[2] > 0 => s[1] > 0}

\* Frames that vary in their buffers: every list holds an Elements and a
\* ResetRenderState command, nv vertices and ni indices below nv.
BufFamily ==
    {ImDrawData([i \in 1..Len(shapes) |->
                    [commands |-> <<ImElements, ImResetRenderState>>,
                     idx_buffer |-> [j \in 1..shapes[i][2] |->
                                        (shapes[i][1] - 1) - ((j - 1) % shapes[i][1])],
                     vtx_buffer |-> [k \in 1..shapes[i][1] |-> ImVert(10 * i + k)]]])
        : shapes \in SeqsUpTo(BufShapes, MaxLists)}

Frames == CmdFamily \cup BufFamily

\* ------------------------------------------------------------------------
\* The capture conversion: impl From<&imgui::...> for ...
\* ------------------------------------------------------------------------

\* panic!("DrawCmd::RawCallback not supported"): the conversion unwinds
Panic == [tag |-> "panic"]

\* impl From<imgui::TextureId> for TextureId (transmute of the integer handle)
FromTextureId(i) == i

\* impl From<&imgui::DrawCmdParams> for DrawCmdParams
FromDrawCmdParams(p) ==
    [clip_rect |-> p.clip_rect,
     texture_id |-> FromTextureId(p.texture_id),
     vtx_offset |-> p.vtx_offset,
     idx_offset |-> p.idx_offset]

\* a conversion that turns the native callback into ResetRenderState
FromDrawCmdLenient(c) ==
    CASE c.tag = "Elements" ->
            [tag |-> "Elements", count |-> c.count,
             cmd_params |-> FromDrawCmdParams(c.cmd_params)]
      [] c.tag = "ResetRenderState" -> [tag |-> "ResetRenderState"]
      [] c.tag = "RawCallback" -> [tag |-> "ResetRenderState"]

\* impl From<imgui::DrawCmd> for DrawCmd
FromDrawCmd(c) ==
    CASE c.tag = "Elements" ->
            [tag |-> "Elements", count |-> c.count,
             cmd_params |-> FromDrawCmdParams(c.cmd_params)]
      [] c.tag = "ResetRenderState" -> [tag |-> "ResetRenderState"]
      [] c.tag = "RawCallback" -> Panic

\* impl From<&imgui::DrawVert> for DrawVert
FromDrawVert(v) == [pos |-> v.pos, uv |-> v.uv, col |-> v.col]

\* impl From<&imgui::DrawList> for DrawList: a panic in one command unwinds
\* out of collect() and of the whole conversion.
FromDrawList(d) ==
    LET commands == [i \in 1..Len(d.commands) |-> FromDrawCmd(d.commands[i])]
    IN  IF \E i \in 1..Len(commands) : commands[i] = Panic
        THEN Panic
        ELSE [commands |-> commands,
              idx_buffer |-> [i \in 1..Len(d.idx_buffer) |-> d.idx_buffer[i]],
              vtx_buffer |-> [i \in 1..Len(d.vtx_buffer) |->
                                 FromDrawVert(d.vtx_buffer[i])]]

\* a conversion that writes the two totals into each other's field
FromDrawDataSwapped(d) ==
    LET cmd_lists == [i \in 1..Len(d.cmd_lists) |-> FromDrawList(d.cmd_lists[i])]
    IN  IF \E i \in 1..Len(cmd_lists) : cmd_lists[i] = Panic
        THEN Panic
        ELSE [total_idx_count |-> d.total_vtx_count,
              total_vtx_count |-> d.total_idx_count,
              cmd_lists |-> cmd_lists,
              display_pos |-> d.display_pos,
              display_size |-> d.display_size,
              framebuffer_scale |-> d.framebuffer_scale]

\* impl From<&imgui::DrawData> for DrawData
FromDrawData(d) ==
    LET cmd_lists == [i \in 1..Len(d.cmd_lists) |-> FromDrawList(d.cmd_lists[i])]
    IN  IF \E i \in 1..Len(cmd_lists) : cmd_lists[i] = Panic
        THEN Panic
        ELSE [total_idx_count |-> d.total_idx_count,
              total_vtx_count |-> d.total_vtx_count,
              cmd_lists |-> cmd_lists,
              display_pos |-> d.display_pos,
              display_size |-> d.display_size,
              framebuffer_scale |-> d.framebuffer_scale]

\* DrawData::from(&imgui::DrawData), called once on the frame
Capture ==
    /\ pc = "frame"
    /\ LET r == FromDrawData(frame)
       IN  IF r = Panic
           THEN /\ pc' = "panicked"
                /\ snap' = NoSnap
           ELSE /\ pc' = "captured"
                /\ snap' = r
    /\ UNCHANGED <<frame, wire, decoded, it, out, prev>>

\* ------------------------------------------------------------------------
\* Accessors: DrawData::draw_lists, DrawList::commands and their iterators
\* ------------------------------------------------------------------------

\* What the iterator being replaced leaves behind, if it ran to its end
Finished == IF it.ended THEN [kind |-> it.kind, list |-> it.list, out |-> out] ELSE prev

\* DrawData::draw_lists: self.cmd_lists.iter()
DrawLists ==
    /\ pc = "captured"
    /\ it' = [kind |-> "draw_lists", list |-> 0, src |-> snap.cmd_lists,
              pos |-> 0, ended |-> FALSE]
    /\ out' = <<>>
    /\ prev' = Finished
    /\ UNCHANGED <<frame, pc, snap, wire, decoded>>

\* commands() that moves the stored commands out of the list
CommandsTake(i) ==
    /\ pc = "captured"
    /\ i \in 1..Len(snap.cmd_lists)
    /\ it' = [kind |-> "commands", list |-> i, src |-> snap.cmd_lists[i].commands,
              pos |-> 0, ended |-> FALSE]
    /\ snap' = [snap EXCEPT !.cmd_lists[i].commands = <<>>]
    /\ out' = <<>>
    /\ prev' = Finished
    /\ UNCHANGED <<frame, pc, wire, decoded>>

\* DrawList::commands on the i-th list: self.commands.clone().into_iter()
Commands(i) ==
    /\ pc = "captured"
    /\ i \in 1..Len(snap.cmd_lists)
    /\ it' = [kind |-> "commands", list |-> i,
              src |-> [j \in 1..Len(snap.cmd_lists[i].commands) |->
                          snap.cmd_lists[i].commands[j]],
              pos |-> 0, ended |-> FALSE]
    /\ out' = <<>>
    /\ prev' = Finished
    /\ UNCHANGED <<frame, pc, snap, wire, decoded>>

\* Iterator::next on the iterator: the next item front to back, then None
IterNext ==
    /\ it.kind # "none"
    /\ ~it.ended
    /\ IF it.pos < Len(it.src)
       THEN /\ out' = Append(out, it.src[it.pos + 1])
            /\ it' = [it EXCEPT !.pos = it.pos + 1]
       ELSE /\ out' = out
            /\ it' = [it EXCEPT !.ended = TRUE]
    /\ UNCHANGED <<frame, pc, snap, wire, decoded, prev>>

\* ------------------------------------------------------------------------
\* derive(Serialize, Deserialize): fields in declaration order, a Vec as its
\* length and its elements, an enum as its variant index and its fields
\* ------------------------------------------------------------------------

RECURSIVE Concat(_)
Concat(ss) == IF ss = <<>> THEN <<>> ELSE Head(ss) \o Concat(Tail(ss))

\* Serialize for DrawVert
SerDrawVert(v) == v.pos \o v.uv \o v.col

\* Serialize for DrawCmdParams
SerDrawCmdParams(p) == p.clip_rect \o <<p.texture_id, p.vtx_offset, p.idx_offset>>

\* Serialize for DrawCmd
SerDrawCmd(c) ==
    IF c.tag = "Elements"
    THEN <<0, c.count>> \o SerDrawCmdParams(c.cmd_params)
    ELSE <<1>>

\* Serialize for DrawList
SerDrawList(l) ==
    <<Len(l.commands)>> \o Concat([i \in 1..Len(l.commands) |-> SerDrawCmd(l.commands[i])])
    \o <<Len(l.idx_buffer)>> \o l.idx_buffer
    \o <<Len(l.vtx_buffer)>>
    \o Concat([i \in 1..Len(l.vtx_buffer) |-> SerDrawVert(l.vtx_buffer[i])])

\* a serializer that writes total_vtx_count before total_idx_count
SerDrawDataSwapped(d) ==
    <<d.total_vtx_count, d.total_idx_count>>
    \o <<Len(d.cmd_lists)>>
    \o Concat([i \in 1..Len(d.cmd_lists) |-> SerDrawList(d.cmd_lists[i])])
    \o d.display_pos \o d.display_size \o d.framebuffer_scale

\* Serialize for DrawData
SerDrawData(d) ==
    <<d.total_idx_count, d.total_vtx_count>>
    \o <<Len(d.cmd_lists)>>
    \o Concat([i \in 1..Len(d.cmd_lists) |-> SerDrawList(d.cmd_lists[i])])
    \o d.display_pos \o d.display_size \o d.framebuffer_scale

\* A decoded value and the position after it
At(v, p) == [v |-> v, p |-> p]

\* Deserialize for DrawVert
DeDrawVert(w, p) ==
    At([pos |-> <<w[p], w[p + 1]>>,
        uv  |-> <<w[p + 2], w[p + 3]>>,
        col |-> <<w[p + 4], w[p + 5], w[p + 6], w[p + 7]>>], p + 8)

\* Deserialize for DrawCmdParams
DeDrawCmdParams(w, p) ==
    At([clip_rect |-> <<w[p], w[p + 1], w[p + 2], w[p + 3]>>,
        texture_id |-> w[p + 4],
        vtx_offset |-> w[p + 5],
        idx_offset |-> w[p + 6]], p + 7)

\* Deserialize for DrawCmd
DeDrawCmd(w, p) ==
    IF w[p] = 0
    THEN LET params == DeDrawCmdParams(w, p + 2)
         IN  At([tag |-> "Elements", count |-> w[p + 1], cmd_params |-> params.v],
                params.p)
    ELSE At([tag |-> "ResetRenderState"], p + 1)

RECURSIVE DeCmds(_, _, _)
\* Deserialize for Vec<DrawCmd>, n elements from p
DeCmds(w, p, n) ==
    IF n = 0 THEN At(<<>>, p)
    ELSE LET h == DeDrawCmd(w, p)
             t == DeCmds(w, h.p, n - 1)
         IN  At(<<h.v>> \o t.v, t.p)

RECURSIVE DeVerts(_, _, _)
\* Deserialize for Vec<DrawVert>, n elements from p
DeVerts(w, p, n) ==
    IF n = 0 THEN At(<<>>, p)
    ELSE LET h == DeDrawVert(w, p)
             t == DeVerts(w, h.p, n - 1)
         IN  At(<<h.v>> \o t.v, t.p)

\* Deserialize for DrawList
DeDrawList(w, p) ==
    LET commands == DeCmds(w, p + 1, w[p])
        ni == w[commands.p]
        idx == SubSeq(w, commands.p + 1, commands.p + ni)
        vp == commands.p + ni + 1
        vtx == DeVerts(w, vp + 1, w[vp])
    IN  At([commands |-> commands.v, idx_buffer |-> idx, vtx_buffer |-> vtx.v], vtx.p)

RECURSIVE DeLists(_, _, _)
\* Deserialize for Vec<DrawList>, n elements from p
DeLists(w, p, n) ==
    IF n = 0 THEN At(<<>>, p)
    ELSE LET h == DeDrawList(w, p)
             t == DeLists(w, h.p, n - 1)
         IN  At(<<h.v>> \o t.v, t.p)

\* Deserialize for DrawData
DeDrawData(w) ==
    LET lists == DeLists(w, 4, w[3])
        q == lists.p
    IN  At([total_idx_count |-> w[1],
            total_vtx_count |-> w[2],
            cmd_lists |-> lists.v,
            display_pos |-> <<w[q], w[q + 1]>>,
            display_size |-> <<w[q + 2], w[q + 3]>>,
            framebuffer_scale |-> <<w[q + 4], w[q + 5]>>], q + 6)

\* Serializing the captured DrawData
Encode ==
    /\ pc = "captured"
    /\ wire = <<>>
    /\ wire' = SerDrawData(snap)
    /\ UNCHANGED <<frame, pc, snap, decoded, it, out, prev>>

\* Deserializing what was serialized
Decode ==
    /\ wire # <<>>
    /\ decoded = NoSnap
    /\ decoded' = DeDrawData(wire).v
    /\ UNCHANGED <<frame, pc, snap, wire, it, out, prev>>

\* ------------------------------------------------------------------------
\* Specifications of the draw data side
\* ------------------------------------------------------------------------

\* The toolkit has rendered a frame; the registry is not involved.
InitFrame ==
    /\ textures = HashMapNew
    /\ next = 0
    /\ issued = <<>>
    /\ used = {}
    /\ removed = {}
    /\ last = Call("new", 0, None, None, None)
    /\ scen = 0
    /\ frame \in Frames
    /\ pc = "frame"
    /\ snap = NoSnap
    /\ wire = <<>>
    /\ decoded = NoSnap
    /\ it = NoIter
    /\ out = <<>>
    /\ prev = NoRun

\* Capture, then iterate the snapshot
NextDraw ==
    \/ Capture /\ UNCHANGED texVars
    \/ DrawLists /\ UNCHANGED texVars
    \/ \E i \in 1..MaxLists : Commands(i) /\ UNCHANGED texVars
    \/ IterNext /\ UNCHANGED texVars

SpecDraw == InitFrame /\ [][NextDraw]_vars

\* Capture, then serialize and deserialize the snapshot
NextWire ==
    \/ Capture /\ UNCHANGED texVars
    \/ Encode /\ UNCHANGED texVars
    \/ Decode /\ UNCHANGED texVars

SpecWire == InitFrame /\ [][NextWire]_vars

\* ------------------------------------------------------------------------
\* Properties of the texture registry (specification Spec)
\* ------------------------------------------------------------------------

\* C1: whatever insert, replace, remove, get and get_mut calls are made on
\* one registry, the TextureIds returned by its insert calls are pairwise
\* distinct.
C1_InsertIdsDistinct ==
    \A i, j \in DOMAIN issued : i # j => issued[i] # issued[j]

\* Three inserts have returned, with a value removed and an id registered
\* through replace (never issued by insert) in the same run.
C1_Witness ==
    /\ Len(issued) >= 3
    /\ removed # {}
    /\ \E k \in used : \A i \in DOMAIN issued : issued[i] # k

\* C2: once remove(id) has taken a value from id (issued by insert or
\* registered through replace), no later insert returns that id.
C2_NoReuseAfterRemove ==
    last.op = "insert" => last.id \notin removed

C3_InsertStep ==
    last'.op = "insert" =>
        /\ last'.id \notin DOMAIN textures
        /\ last'.id \notin used
        /\ last'.dropped = None
        /\ DOMAIN textures' = DOMAIN textures \cup {last'.id}
        /\ Cardinality(DOMAIN textures') = Cardinality(DOMAIN textures) + 1

C3_ValueLeavesStep ==
    \A k \in DOMAIN textures :
        (k \notin DOMAIN textures' \/ textures'[k] # textures[k]) =>
            /\ last'.op \in {"remove", "replace"}
            /\ last'.id = k
            /\ last'.ret = textures[k]

\* C3: insert stores its value under an id that holds no value and has never
\* been used in this registry, so it overwrites and discards nothing and adds
\* exactly one entry; a stored value leaves the registry only as the value
\* returned by remove or replace.
C3_InsertNeverOverwrites ==
    [][C3_InsertStep /\ C3_ValueLeavesStep]_vars

C4_ReplaceStep ==
    last'.op = "replace" =>
        /\ last'.ret = HashMapGet(textures, last'.id)
        /\ HashMapGet(textures', last'.id) = last'.arg
        /\ \A k \in (DOMAIN textures \cup DOMAIN textures') \ {last'.id} :
               HashMapGet(textures', k) = HashMapGet(textures, k)
        /\ next' = next

\* C4: replace(id, v) returns the value stored under id right before the call
\* (None if there was none), get(id) right afterwards returns v, and the
\* entries under other ids and the next-id counter are unchanged.
C4_ReplaceReturnsPrevious ==
    [][C4_ReplaceStep]_vars

\* replace has just swapped a stored value for a different one, with other
\* entries present.
C4_Witness ==
    /\ last.op = "replace"
    /\ last.ret # None
    /\ last.ret # last.arg
    /\ HashMapGet(textures, last.id) = last.arg
    /\ DOMAIN textures # {last.id}

C5_RemoveStep ==
    last'.op = "remove" =>
        /\ last'.ret = HashMapGet(textures, last'.id)
        /\ HashMapGet(textures', last'.id) = None
        /\ DOMAIN textures' = DOMAIN textures \ {last'.id}
        /\ \A k \in DOMAIN textures' : textures'[k] = textures[k]
        /\ last'.id \notin DOMAIN textures =>
               /\ last'.ret = None
               /\ textures' = textures
               /\ next' = next

C5_LookupStep ==
    (last'.op \in {"get", "get_mut"} /\ last'.id \notin DOMAIN textures) =>
        /\ last'.ret = None
        /\ textures' = textures
        /\ next' = next

\* C5: remove(id) on a present id returns the stored value and deletes only
\* that entry, so that get(id) is None afterwards; remove, get and get_mut on
\* an absent id return None and leave every entry and the counter unchanged.
C5_AbsentIsEmptyResult ==
    [][C5_RemoveStep /\ C5_LookupStep]_vars

\* remove has just returned None for an id whose value an earlier remove had
\* taken, while other entries are stored.
C5_Witness ==
    /\ last.op = "remove"
    /\ last.ret = None
    /\ last.id \in removed
    /\ DOMAIN textures # {}

\* C10: on a registry from Textures::new(), the n-th insert (from 0) returns
\* TextureId n whatever was removed in between; after three inserts,
\* remove(1) and one more insert the new id is 3, get(1) is None and get(3)
\* is a value.
C10_InsertCountsUp ==
    /\ \A i \in DOMAIN issued : issued[i] = i - 1
    /\ scen = 5 =>
           /\ issued = <<0, 1, 2, 3>>
           /\ HashMapGet(textures, 1) = None
           /\ HashMapGet(textures, 3) # None

\* The scenario insert, insert, insert, remove(1), insert has just run.
C10_Witness ==
    /\ scen = 5
    /\ Len(issued) = 4
    /\ 1 \in removed

\* ------------------------------------------------------------------------
\* Properties of the draw data (specifications SpecDraw and SpecWire)
\* ------------------------------------------------------------------------

\* C6: decoding the encoded form of a captured DrawData yields a DrawData
\* equal to it field for field, draw lists, commands, vertices and indices in
\* their order; the decoder consumes exactly what the encoder wrote.
C6_RoundTrip ==
    decoded # NoSnap =>
        /\ decoded = snap
        /\ DeDrawData(wire).p = Len(wire) + 1

\* A snapshot of two lists, one of them with two vertices and two indices
\* and an Elements command followed by ResetRenderState, has been decoded.
C6_Witness ==
    /\ decoded # NoSnap
    /\ Len(snap.cmd_lists) = 2
    /\ snap.total_idx_count # snap.total_vtx_count
    /\ \E i \in 1..2 :
           /\ Len(snap.cmd_lists[i].vtx_buffer) = 2
           /\ Len(snap.cmd_lists[i].idx_buffer) = 2
           /\ snap.cmd_lists[i].idx_buffer[1] # snap.cmd_lists[i].idx_buffer[2]
           /\ Len(snap.cmd_lists[i].commands) = 2
           /\ snap.cmd_lists[i].commands[1].tag = "Elements"

\* The toolkit frame holds a native-callback command
HasRawCallback(d) ==
    \E i \in 1..Len(d.cmd_lists) :
        \E j \in 1..Len(d.cmd_lists[i].commands) :
            d.cmd_lists[i].commands[j].tag = "RawCallback"

\* The snapshot holds every list and every command of the toolkit frame
Complete(d, sn) ==
    /\ sn # NoSnap
    /\ Len(sn.cmd_lists) = Len(d.cmd_lists)
    /\ \A i \in 1..Len(d.cmd_lists) :
           /\ Len(sn.cmd_lists[i].commands) = Len(d.cmd_lists[i].commands)
           /\ \A j \in 1..Len(d.cmd_lists[i].commands) :
                  sn.cmd_lists[i].commands[j].tag = d.cmd_lists[i].commands[j].tag
           /\ Len(sn.cmd_lists[i].idx_buffer) = Len(d.cmd_lists[i].idx_buffer)
           /\ Len(sn.cmd_lists[i].vtx_buffer) = Len(d.cmd_lists[i].vtx_buffer)

\* C7: a capture of a frame with a native-callback command in any list at any
\* position aborts and returns no DrawData at all, not even a partial one; a
\* capture of a frame without one returns a complete snapshot.
C7_CallbackAbortsCapture ==
    pc \in {"captured", "panicked"} =>
        IF HasRawCallback(frame)
        THEN pc = "panicked" /\ snap = NoSnap
        ELSE pc = "captured" /\ Complete(frame, snap)

\* The capture panicked on a callback that is the last command of the second
\* list, after an Elements command and a whole list had been converted.
C7_Witness ==
    /\ pc = "panicked"
    /\ Len(frame.cmd_lists) = 2
    /\ Len(frame.cmd_lists[1].commands) = 1
    /\ frame.cmd_lists[1].commands[1].tag = "Elements"
    /\ Len(frame.cmd_lists[2].commands) = 2
    /\ frame.cmd_lists[2].commands[1].tag = "Elements"
    /\ frame.cmd_lists[2].commands[2].tag = "RawCallback"

Stored == IF it.kind = "draw_lists" THEN snap.cmd_lists
          ELSE snap.cmd_lists[it.list].commands

C9_Yielded ==
    it.kind # "none" =>
        /\ it.pos <= Len(Stored)
        /\ out = SubSeq(Stored, 1, it.pos)
        /\ it.ended => out = Stored
        /\ (it.ended /\ prev.kind = it.kind /\ prev.list = it.list) => out = prev.out

C9_IterStep ==
    pc = "captured" => snap' = snap

\* C9: draw_lists() yields the snapshot's lists and commands() a list's
\* commands in storage order; each ends after the stored count, a repeated
\* call yields the same sequence again, and neither changes the snapshot.
C9_IterationInStorageOrder ==
    []C9_Yielded /\ [][C9_IterStep]_vars

\* commands() on the second list ran to its end for the second time and
\* yielded Elements, then ResetRenderState both times.
C9_Witness ==
    /\ it.kind = "commands"
    /\ it.list = 2
    /\ it.ended
    /\ prev.kind = "commands"
    /\ prev.list = 2
    /\ Len(out) = 2
    /\ out[1].tag = "Elements"
    /\ out[2].tag = "ResetRenderState"

====
